---- MODULE Spec2Model ----
(***************************************************************************)
(* Chat backend: the streaming turn workflow of ChatService                *)
(* (initiateChat / runWorkflow / getChatStream / saveChatHistory), the      *)
(* WorkflowService it drives and the collaborators it awaits.               *)
(*                                                                         *)
(* Node's event loop is modelled as interleaving: one action per await     *)
(* that settles.  The code between two awaits runs without interruption,   *)
(* so it is one atomic step.  Strings that the code concatenates are       *)
(* sequences of characters; other strings are TLA+ strings.                *)
(***************************************************************************)
EXTENDS Integers, Sequences, FiniteSets, TLC

(* ------------------------------ bounds -------------------------------- *)

\* chunks one llm.stream() iterator yields before it must end or throw
MaxChunks == 2
\* files uploaded with one request
MaxFiles == 1
\* chunks the text splitter makes of an uploaded document no longer than
\* its chunkSize: none of an empty text, one of any other
SplitCounts == {0, 1}

\* the values uuidv4() may return as a stream id
StreamIds == {"s1", "s2"}
\* the stream ids the turns of Spec draw; the other ids are never opened
SoloStreams == {"s1"}
\* the session ids: those a caller holds and may supply, and the others,
\* which uuidv4() may return for a request without one
SessionIds == {"A", "B"}
CallerSessions == {"A"}
\* SSE connections (one per call of GET chat/stream/:streamId)
Clients == {"c1", "c2"}
\* the connections the clients of Spec open
SoloClients == {"c1"}

(* ------------------------------ values -------------------------------- *)

\* JavaScript undefined / null
Undefined == "<undefined>"
\* request.message as the controller receives it
Messages == {Undefined, "", "hi"}
\* JavaScript truthiness of an optional string
Truthy(s) == s \notin {Undefined, ""}
\* a ?? b
Coalesce(a, b) == IF a = Undefined THEN b ELSE a

\* chunk.content values of the generator: the empty string, "a", "b"
ChunkContents == {<<>>, <<"a">>, <<"b">>}

\* mimetype classes of an uploaded file that multerFileFilter lets through
\* (every type it allows is an image/* type or a document type)
FileKinds == {"image", "document"}

\* an optional value: <<>> is unset, <<v>> is set to v
None == <<>>
Some(v) == <<v>>

\* Array.prototype.slice(n) for a negative n: the last -n elements
SliceLast(s, n) == IF Len(s) <= n THEN s ELSE SubSeq(s, Len(s) - n + 1, Len(s))
\* the first n elements of s
Take(s, n) == IF Len(s) <= n THEN s ELSE SubSeq(s, 1, n)

\* Array.prototype.slice(start): from the element after the first `start`
\* ones, or for a negative start from the element -start before the end
Slice(s, start) ==
  LET from == IF start < 0
              THEN (IF Len(s) + start < 0 THEN 0 ELSE Len(s) + start)
              ELSE (IF start > Len(s) THEN Len(s) ELSE start)
  IN SubSeq(s, from + 1, Len(s))

\* a limit that is passed as the number of entries to keep
LimitHistoryByCount(chatHistory, limit) ==
  IF limit = None THEN chatHistory ELSE SliceLast(chatHistory, limit[1])

\* getChatHistory's result: limit ? chatHistory.slice(limit) : chatHistory.
\* The optional parameter is None when the caller passes none.
LimitHistory(chatHistory, limit) ==
  IF limit = None \/ limit = Some(0) THEN chatHistory
  ELSE Slice(chatHistory, limit[1])

\* top-K of the similarity search
RetrievalLimit == 5
\* recency window of the history handed to the workflow
HistoryWindow == 3

(* ------------------------------- state -------------------------------- *)

VARIABLES
  chatStreams,  \* ChatService.chatStreams: the stream ids registered
  subject,      \* per stream id, the rxjs Subject: status and observers
  turn,         \* per stream id, the closure state of runWorkflow
  client,       \* per SSE connection: what the subscriber has observed
  published,    \* per stream id, the values passed to chatStream.next
  traces,       \* per stream id, the run names given to LangSmith
  meta,         \* Supabase table chat_history: sessionId -> record
  blob,         \* Cloudinary raw assets chat_history/<sessionId>
  index,        \* Pinecone documents per sessionId
  clock         \* the wall clock new Date() reads

vars == <<chatStreams, subject, turn, client, published, traces, meta, blob,
          index, clock>>

\* no Subject constructed yet for this stream id
NoSubject == [status |-> "none", observers |-> {}, terminals |-> <<>>]

\* a row of chat_history: absent, or {history_url, title}
NoRow == [present |-> FALSE, history_url |-> Undefined, title |-> Undefined]

\* the closure of one runWorkflow before initiateChat has drawn its stream id.
\* returned: what initiateChat returned to its caller; saveError: the
\* failure saveChatHistory or downloadChatHistory logged with console.error;
\* after: the stream ids whose runWorkflow had returned when this one began;
\* nChunks: how many chunks the iterator of llm.stream has yielded;
\* loadError: the failure getChatHistory or downloadChatHistory logged while
\* the history for the prompt was read; fileErrors: the positions of the
\* files whose failure processFiles logged; fileOrder: the positions of the
\* files whose processing settled, in the order they settled; prompt: the
\* string handed to llm.stream; search: the arguments searchSimilar was
\* called with.
IdleTurn ==
  [pc |-> "idle", sessionId |-> Undefined, textInput |-> Undefined,
   files |-> <<>>, fileIdx |-> 1, images |-> <<>>, documents |-> <<>>,
   fileUrl |-> Undefined, chatHistory |-> <<>>, retrievedContext |-> <<>>,
   response |-> <<>>, nChunks |-> 0, finalResponse |-> None,
   saving |-> <<>>, newFileUrl |-> Undefined, error |-> "none",
   saveError |-> "none", returned |-> Undefined, after |-> {},
   loadError |-> "none", fileErrors |-> {},
   fileOrder |-> <<>>, prompt |-> None, search |-> None]

\* an SSE connection before its request: state, the stream id asked for,
\* the fragments and the terminal notification it was handed, and (for the
\* properties) how many fragments the stream had published at its request.
\* For a request GET /chat/:sessionId: the session asked for, the url read
\* the history of the reply and the failure that was logged on the way.
IdleClient ==
  [state |-> "idle", streamId |-> Undefined, received |-> <<>>,
   terminal |-> "none", missed |-> 0,
   sessionId |-> Undefined, fileUrl |-> Undefined, history |-> None,
   loadError |-> "none"]

\* the history session "A" holds when the model starts: one earlier turn.
\* The other sessions have no row and no asset yet.
InitEntry == [timestamp |-> 0, userMessage |-> "old", llmResponse |-> <<"a">>]
InitHistory == <<InitEntry>>

\* the longest history a session may hold when the model starts
MaxHistory == 4
\* the history n earlier turns have left, the oldest first
StoredHistory(n) ==
  [i \in 1..n |-> [timestamp |-> i - n, userMessage |-> "old", llmResponse |-> <<"a">>]]

Init ==
  /\ chatStreams = {}
  /\ subject = [t \in StreamIds |-> NoSubject]
  /\ turn = [t \in StreamIds |-> IdleTurn]
  /\ client = [c \in Clients |-> IdleClient]
  /\ published = [t \in StreamIds |-> <<>>]
  /\ traces = [t \in StreamIds |-> {}]
  /\ blob = [s \in SessionIds |-> IF s = "A" THEN Some(InitHistory) ELSE None]
  /\ meta = [s \in SessionIds |->
               IF s = "A"
               THEN [present |-> TRUE, history_url |-> s, title |-> Undefined]
               ELSE NoRow]
  /\ index = [s \in SessionIds |-> <<>>]
  /\ clock = 1

\* as Init, session "A" holding any history of up to MaxHistory entries
HistoryInit ==
  /\ chatStreams = {}
  /\ subject = [t \in StreamIds |-> NoSubject]
  /\ turn = [t \in StreamIds |-> IdleTurn]
  /\ client = [c \in Clients |-> IdleClient]
  /\ published = [t \in StreamIds |-> <<>>]
  /\ traces = [t \in StreamIds |-> {}]
  /\ \E n \in 0..MaxHistory :
       blob = [s \in SessionIds |-> IF s = "A" THEN Some(StoredHistory(n)) ELSE None]
  /\ meta = [s \in SessionIds |->
               IF s = "A"
               THEN [present |-> TRUE, history_url |-> s, title |-> Undefined]
               ELSE NoRow]
  /\ index = [s \in SessionIds |-> <<>>]
  /\ clock = 1

(* --------------------------- rxjs Subject ----------------------------- *)

\* A channel state pairs one Subject with the subscribers it may notify.
Chan(t) == [subj |-> subject[t], cl |-> client]

\* Subject.next(v): a stopped Subject ignores it; an open one hands v to
\* the observers attached at this moment and keeps no copy.
SubjectNext(ch, v) ==
  IF ch.subj.status # "open" THEN ch
  ELSE [ch EXCEPT !.cl = [c \in Clients |->
          IF c \in ch.subj.observers
          THEN [ch.cl[c] EXCEPT !.received = Append(@, v)]
          ELSE ch.cl[c]]]

\* the observers of ch are told `how` and dropped
Terminate(ch, how) ==
  [subj |-> [status |-> IF how = "error" THEN "errored" ELSE "completed",
             observers |-> {},
             terminals |-> Append(ch.subj.terminals, how)],
   cl |-> [c \in Clients |->
          IF c \in ch.subj.observers
          THEN [ch.cl[c] EXCEPT !.terminal = how, !.state = "closed"]
          ELSE ch.cl[c]]]

\* Subject.error(err): ignored once the Subject is stopped
SubjectError(ch) == IF ch.subj.status # "open" THEN ch ELSE Terminate(ch, "error")

\* Subject.complete(): ignored once the Subject is stopped
SubjectComplete(ch) == IF ch.subj.status # "open" THEN ch ELSE Terminate(ch, "complete")

\* Observable.subscribe on the Subject by connection c: a stopped Subject
\* answers at once with its terminal notification, an open one attaches c.
SubjectSubscribe(ch, c, t, seen) ==
  LET base == [ch.cl[c] EXCEPT !.streamId = t, !.missed = seen] IN
  CASE ch.subj.status = "errored" ->
         [ch EXCEPT !.cl[c] = [base EXCEPT !.state = "closed", !.terminal = "error"]]
    [] ch.subj.status = "completed" ->
         [ch EXCEPT !.cl[c] = [base EXCEPT !.state = "closed", !.terminal = "complete"]]
    [] OTHER ->
         [ch EXCEPT !.cl[c] = [base EXCEPT !.state = "attached"],
                    !.subj.observers = @ \cup {c}]

\* new Subject<string>()
NewSubject == [status |-> "open", observers |-> {}, terminals |-> <<>>]

(* --------------------------- collaborators ---------------------------- *)

\* SupabaseService.getHistoryUrl: data ? data.history_url : null
GetHistoryUrl(s) == IF meta[s].present THEN meta[s].history_url ELSE Undefined

\* a download that never finds the asset
DownloadNothing(url, ok) == <<>>

\* CloudinaryService.downloadChatHistory: the parsed asset; [] when the
\* fetch fails, the asset is missing or empty (every error is caught inside)
DownloadChatHistory(url, ok) ==
  IF ok /\ url \in SessionIds /\ blob[url] # None THEN blob[url][1] ELSE <<>>

\* SupabaseService.upsertHistoryUrl: upsert on sessionId, other columns kept
UpsertHistoryUrl(row, url) ==
  IF row.present THEN [row EXCEPT !.history_url = url]
  ELSE [present |-> TRUE, history_url |-> url, title |-> Undefined]

\* SupabaseService.insertHistoryTitle: update({title}).eq(sessionId); an
\* undefined title is dropped from the JSON body, and no row means no update
InsertHistoryTitle(row, title) ==
  IF row.present /\ title # Undefined THEN [row EXCEPT !.title = title] ELSE row

\* VectorStoreService.searchSimilar's hits: at most `limit` documents of
\* the session, by pageContent
SimilaritySearch(s, limit) == Take(index[s], limit)

(* ----------------------- ChatService.runWorkflow ---------------------- *)

\* uuidv4() for a session id: an id that names no session yet
FreshSessions ==
  {s \in SessionIds \ CallerSessions :
     ~meta[s].present /\ blob[s] = None /\ \A t \in StreamIds : turn[t].sessionId # s}

\* processFiles awaits only on images and documents: the index of the next
\* such file at or after i, Len(files) + 1 when there is none
RECURSIVE NextAwaited(_, _)
NextAwaited(files, i) ==
  IF i > Len(files) \/ files[i] \in {"image", "document"} THEN i
  ELSE NextAwaited(files, i + 1)

\* executeWorkflow from its call to its first await
EnterWorkflow(tr) ==
  IF Len(tr.images \o tr.documents) > 0
  THEN [tr EXCEPT !.pc = "storeContent"]
  ELSE [tr EXCEPT !.pc = "searchSimilar"]

\* processFiles from file i to its next await, or past the loop
EnterProcessFiles(tr, i) ==
  LET j == NextAwaited(tr.files, i) IN
  IF j > Len(tr.files) THEN EnterWorkflow([tr EXCEPT !.fileIdx = j])
  ELSE [tr EXCEPT !.fileIdx = j, !.pc = "processFiles"]

\* a runWorkflow that asks for the history without a limit
AfterHistoryUnwindowed(tr, history) ==
  LET tr1 == [tr EXCEPT !.chatHistory = LimitHistory(history, None)] IN
  IF Len(tr1.files) > 0 THEN EnterProcessFiles(tr1, 1) ELSE EnterWorkflow(tr1)

\* runWorkflow from the settled getChatHistory(sessionId, -3) on
AfterHistory(tr, history) ==
  LET tr1 == [tr EXCEPT !.chatHistory =
                 LimitHistory(history, Some(0 - HistoryWindow))] IN
  IF Len(tr1.files) > 0 THEN EnterProcessFiles(tr1, 1) ELSE EnterWorkflow(tr1)

\* a finally block that forgets chatStreams.delete
RegistryKeep(reg, t) == reg

\* chatStreams.delete(streamId)
RegistryDelete(reg, t) == reg \ {t}

\* an initiateChat that forgets chatStreams.set
RegistrySetLost(reg, t) == reg

\* chatStreams.set(streamId, chatStream)
RegistrySet(reg, t) == reg \cup {t}

\* a catch block that only traces and never errors the Subject
CatchBlockSilent(ch) == ch

\* a finally block that deletes the registry entry and never completes
FinallyBlockSkipped(ch) == ch

\* the finally block of runWorkflow: complete the Subject
FinallyBlock(ch) == SubjectComplete(ch)

\* the catch block of runWorkflow, after its trace: error the Subject
CatchBlock(ch) == SubjectError(ch)

\* runWorkflow leaves through finally: the variables of the channel
Finally(t, ch) ==
  LET ch1 == FinallyBlock(ch) IN
  /\ subject' = [subject EXCEPT ![t] = ch1.subj]
  /\ client' = ch1.cl
  /\ chatStreams' = RegistryDelete(chatStreams, t)

\* a runWorkflow that does not read the history and enters the workflow
\* before initiateChat returns
RunWorkflowNoHistory(tr) == AfterHistory(tr, <<>>)

\* the call runWorkflow() of initiateChat: the closure runs up to its first
\* await, the one on supabaseService.getHistoryUrl inside getChatHistory,
\* and hands back a promise that initiateChat does not await
RunWorkflow(tr) == [tr EXCEPT !.pc = "getHistoryUrl"]

\* ChatService.initiateChat(request, files), uuidv4() returning t
InitiateChat(t, msg, sid, files) ==
  /\ turn[t].pc = "idle"
  /\ \E s \in (IF sid = Undefined THEN FreshSessions ELSE {sid}) :
       /\ chatStreams' = RegistrySet(chatStreams, t)
       /\ subject' = [subject EXCEPT ![t] = NewSubject]
       /\ turn' = [turn EXCEPT ![t] =
                     RunWorkflow([IdleTurn EXCEPT
                        !.sessionId = s, !.textInput = msg, !.files = files,
                        !.returned = t,
                        !.after = {u \in StreamIds : turn[u].pc = "done"}])]
  /\ UNCHANGED <<client, published, traces, meta, blob, index, clock>>

\* getChatHistory: supabaseService.getHistoryUrl settles.  A throw is
\* caught by getChatHistory, which then returns [].
LoadHistoryUrl(t, ok) ==
  /\ turn[t].pc = "getHistoryUrl"
  /\ LET url == IF ok THEN GetHistoryUrl(turn[t].sessionId) ELSE Undefined IN
     turn' = [turn EXCEPT ![t] =
                IF Truthy(url)
                THEN [@ EXCEPT !.pc = "downloadHistory", !.fileUrl = url]
                ELSE AfterHistory([@ EXCEPT !.loadError =
                                      IF ok THEN "none" ELSE "getHistoryUrl"],
                                  <<>>)]
  /\ UNCHANGED <<chatStreams, subject, client, published, traces, meta, blob,
                 index, clock>>

\* getChatHistory: cloudinaryService.downloadChatHistory settles
LoadHistoryBlob(t, ok) ==
  /\ turn[t].pc = "downloadHistory"
  /\ turn' = [turn EXCEPT ![t] =
                AfterHistory([@ EXCEPT !.loadError =
                                IF ok THEN "none" ELSE "download"],
                             DownloadChatHistory(turn[t].fileUrl, ok))]
  /\ UNCHANGED <<chatStreams, subject, client, published, traces, meta, blob,
                 index, clock>>

\* what one settled processImage / processDocument adds to the state: one
\* description of an image, n chunks of a document; each carries in its
\* metadata the file it was made of (here: the position of the file)
Processed(kind, n, file) ==
  [i \in 1..(IF kind = "image" THEN 1 ELSE n) |->
     [type |-> kind, content |-> kind, file |-> file]]

\* a processFiles without the try/catch around one file: the failure of a
\* file leaves the loop and fails the turn
ProcessFileAborts(t, ok, n) ==
  /\ turn[t].pc = "processFiles"
  /\ LET tr == turn[t]
         kind == tr.files[tr.fileIdx]
         got == Processed(kind, n, tr.fileIdx)
         tr1 == IF kind = "image"
                THEN [tr EXCEPT !.images = @ \o got,
                                !.fileOrder = Append(@, tr.fileIdx)]
                ELSE [tr EXCEPT !.documents = @ \o got,
                                !.fileOrder = Append(@, tr.fileIdx)]
     IN IF ok
        THEN /\ turn' = [turn EXCEPT ![t] = EnterProcessFiles(tr1, tr.fileIdx + 1)]
             /\ UNCHANGED traces
        ELSE /\ turn' = [turn EXCEPT ![t].pc = "catch",
                                     ![t].error = "ExtractionError",
                                     ![t].fileErrors = @ \cup {tr.fileIdx}]
             /\ UNCHANGED traces
  /\ UNCHANGED <<chatStreams, subject, client, published, meta, blob,
                 index, clock>>

\* processFiles: the await on the current file settles.  A throw is caught
\* inside the loop and logged, and the loop goes on.
ProcessFile(t, ok, n) ==
  /\ turn[t].pc = "processFiles"
  /\ LET tr == turn[t]
         kind == tr.files[tr.fileIdx]
         got == IF ok THEN Processed(kind, n, tr.fileIdx) ELSE <<>>
         tr0 == [tr EXCEPT !.fileOrder = Append(@, tr.fileIdx),
                           !.fileErrors = IF ok THEN @ ELSE @ \cup {tr.fileIdx}]
         tr1 == IF kind = "image"
                THEN [tr0 EXCEPT !.images = @ \o got]
                ELSE [tr0 EXCEPT !.documents = @ \o got]
     IN turn' = [turn EXCEPT ![t] = EnterProcessFiles(tr1, tr.fileIdx + 1)]
  /\ UNCHANGED <<chatStreams, subject, client, published, traces, meta, blob,
                 index, clock>>

\* a throw that reaches the caller of initiateChat as well
ThrowToCaller(t, tr, why, names) ==
  /\ turn' = [turn EXCEPT ![t] = [tr EXCEPT !.pc = "catch", !.error = why,
                                            !.returned = "HttpException"]]
  /\ traces' = [traces EXCEPT ![t] = @ \cup names \cup {"workflow_execution_error"}]

\* an executeWorkflow whose catch returns the state it has instead of
\* rethrowing: runWorkflow goes on to saveChatHistory
ThrowSwallowed(t, tr, why, names) ==
  /\ turn' = [turn EXCEPT ![t] = [tr EXCEPT !.pc = "saveGetUrl", !.error = why,
                                            !.finalResponse = Some(tr.response)]]
  /\ traces' = [traces EXCEPT ![t] = @ \cup names \cup {"workflow_execution_error"}]

\* a throw inside executeWorkflow: its catch traces and rethrows, and
\* runWorkflow's catch awaits its own trace before it touches the Subject
Throw(t, tr, why, names) ==
  /\ turn' = [turn EXCEPT ![t] = [tr EXCEPT !.pc = "catch", !.error = why]]
  /\ traces' = [traces EXCEPT ![t] = @ \cup names \cup {"workflow_execution_error"}]

\* executeWorkflow: `await this.vectorStore.storeContent(...)` settles
StoreContent(t, ok) ==
  /\ turn[t].pc = "storeContent"
  /\ LET tr == turn[t]
         docs == [i \in 1..Len(tr.images \o tr.documents) |->
                    (tr.images \o tr.documents)[i].content]
     IN IF ok
        THEN /\ index' = [index EXCEPT ![tr.sessionId] = @ \o docs]
             /\ turn' = [turn EXCEPT ![t].pc = "searchSimilar"]
             /\ traces' = [traces EXCEPT ![t] = @ \cup {"vector_store_content"}]
        ELSE /\ Throw(t, tr, "IndexError", {"vector_store_error"})
             /\ UNCHANGED index
  /\ UNCHANGED <<chatStreams, subject, client, published, meta, blob, clock>>

\* a prompt is the sequence of its sections, each of a kind and with the
\* values it renders

\* a message section that is rendered whether or not there is a message
MessageSectionQuoted(textInput) == [kind |-> "message", body |-> <<textInput>>]

\* buildContextPrompt, section 3: `The user has just sent this message:
\* "<textInput>"` when state.textInput is truthy, else `The user has just
\* uploaded files. Please provide a summary ...`
MessageSection(textInput) ==
  IF Truthy(textInput)
  THEN [kind |-> "message", body |-> <<textInput>>]
  ELSE [kind |-> "fallback", body |-> <<>>]

\* a builder that renders the blocks a state has content for and the
\* message, and returns the empty string for a state that has none of them
BuildContextPromptBare(state) ==
  (IF Len(state.chatHistory) > 0
   THEN <<[kind |-> "history", body |-> state.chatHistory]>> ELSE <<>>)
  \o (IF Len(state.retrievedContext) > 0
      THEN <<[kind |-> "retrieved", body |-> state.retrievedContext]>> ELSE <<>>)
  \o (IF Truthy(state.textInput)
      THEN <<[kind |-> "message", body |-> <<state.textInput>>]>> ELSE <<>>)

\* WorkflowService.buildContextPrompt(state): the opening line, the history
\* block when chatHistory is not empty, the retrieved-context block when
\* retrievedContext is not empty, the message section and the closing
\* instruction.  state.images and state.documents are not read.
BuildContextPrompt(state) ==
  <<[kind |-> "opening", body |-> <<>>]>>
  \o (IF Len(state.chatHistory) > 0
      THEN <<[kind |-> "history", body |-> state.chatHistory]>> ELSE <<>>)
  \o (IF Len(state.retrievedContext) > 0
      THEN <<[kind |-> "retrieved", body |-> state.retrievedContext]>> ELSE <<>>)
  \o <<MessageSection(state.textInput)>>
  \o <<[kind |-> "closing", body |-> <<>>]>>

\* a query that is the message whether or not there is one
QueryOfMessage(textInput) == textInput

\* executeWorkflow's query: initialState.textInput || 'summarize the
\* provided context'
Query(textInput) ==
  IF Truthy(textInput) THEN textInput ELSE "summarize the provided context"

\* the arguments of executeWorkflow's call of searchSimilar
SearchArgs(tr) ==
  [query |-> Query(tr.textInput), sessionId |-> tr.sessionId,
   limit |-> RetrievalLimit]

\* a searchSimilar whose catch rethrows, as storeContent's does
SearchSimilarRethrows(t, ok) ==
  /\ turn[t].pc = "searchSimilar"
  /\ IF ok
     THEN /\ turn' = [turn EXCEPT ![t].pc = "llmStream",
                                  ![t].retrievedContext =
                                     SimilaritySearch(turn[t].sessionId, RetrievalLimit)]
          /\ traces' = [traces EXCEPT ![t] = @ \cup {"vector_search"}]
     ELSE Throw(t, turn[t], "IndexError", {"vector_search_error"})
  /\ UNCHANGED <<chatStreams, subject, client, published, meta, blob, index, clock>>

\* executeWorkflow: `await this.vectorStore.searchSimilar(query, sessionId, 5)`
\* settles; searchSimilar catches its own failure and returns [].  The
\* prompt is built of the state with what was retrieved, and llm.stream is
\* awaited.
SearchSimilar(t, ok) ==
  /\ turn[t].pc = "searchSimilar"
  /\ LET args == SearchArgs(turn[t])
         stateForPrompt ==
           [turn[t] EXCEPT !.retrievedContext =
              IF ok THEN SimilaritySearch(args.sessionId, args.limit)
              ELSE <<>>]
     IN turn' = [turn EXCEPT ![t] =
                   [stateForPrompt EXCEPT
                      !.pc = "llmStream",
                      !.search = Some(args),
                      !.prompt = Some(BuildContextPrompt(stateForPrompt))]]
  /\ traces' = [traces EXCEPT ![t] =
                  @ \cup {IF ok THEN "vector_search" ELSE "vector_search_error"}]
  /\ UNCHANGED <<chatStreams, subject, client, published, meta, blob, index, clock>>

\* a runWorkflow that goes on to saveChatHistory without awaiting the loop
\* over the stream
LlmStreamThenSave(t, ok) ==
  /\ turn[t].pc = "llmStream"
  /\ IF ok
     THEN /\ turn' = [turn EXCEPT ![t].pc = "saveGetUrl"]
          /\ UNCHANGED traces
     ELSE Throw(t, turn[t], "GenerationError", {})
  /\ UNCHANGED <<chatStreams, subject, client, published, meta, blob, index, clock>>

\* executeWorkflow: `await this.llm.stream(prompt)` settles
LlmStream(t, ok) ==
  /\ turn[t].pc = "llmStream"
  /\ IF ok
     THEN /\ turn' = [turn EXCEPT ![t].pc = "forAwait"]
          /\ UNCHANGED traces
     ELSE Throw(t, turn[t], "GenerationError", {})
  /\ UNCHANGED <<chatStreams, subject, client, published, meta, blob, index, clock>>

\* a loop body that assigns the chunk instead of adding it
AccumulateLast(response, content) == content

\* finalResponse += content
Accumulate(response, content) == response \o content

\* an onChunk callback that never calls chatStream.next
OnChunkLost(ch, chunk) == ch

\* the onChunk callback of runWorkflow: chatStream.next(chunk)
OnChunk(ch, chunk) == SubjectNext(ch, chunk)

\* executeWorkflow: the `for await` loop receives one chunk.  An empty
\* content is skipped; any other is added to finalResponse and handed to
\* onChunk.
StreamChunk(t, content) ==
  /\ turn[t].pc = "forAwait"
  /\ turn[t].nChunks < MaxChunks
  /\ IF content # <<>>
     THEN LET ch == OnChunk(Chan(t), content) IN
          /\ turn' = [turn EXCEPT ![t].response = Accumulate(@, content),
                                  ![t].nChunks = @ + 1]
          /\ published' = [published EXCEPT ![t] = Append(@, content)]
          /\ subject' = [subject EXCEPT ![t] = ch.subj]
          /\ client' = ch.cl
     ELSE /\ turn' = [turn EXCEPT ![t].nChunks = @ + 1]
          /\ UNCHANGED <<published, subject, client>>
  /\ UNCHANGED <<chatStreams, traces, meta, blob, index, clock>>

\* a loop that reports the failure of the iterator on the channel and goes
\* on with the next chunk
StreamFailResumes(t) ==
  /\ turn[t].pc = "forAwait"
  /\ subject[t].status = "open"
  /\ LET ch == CatchBlock(Chan(t)) IN
     /\ subject' = [subject EXCEPT ![t] = ch.subj]
     /\ client' = ch.cl
  /\ UNCHANGED <<chatStreams, turn, published, traces, meta, blob, index, clock>>

\* executeWorkflow: the iterator of llm.stream throws in mid-stream
StreamFail(t) ==
  /\ turn[t].pc = "forAwait"
  /\ Throw(t, turn[t], "GenerationError", {})
  /\ UNCHANGED <<chatStreams, subject, client, published, meta, blob, index, clock>>

\* executeWorkflow: the iterator ends.  finalState is built and traced,
\* runWorkflow logs the interaction and calls saveChatHistory, which awaits
\* supabaseService.getHistoryUrl.
StreamEnd(t) ==
  /\ turn[t].pc = "forAwait"
  /\ turn' = [turn EXCEPT ![t].finalResponse = Some(turn[t].response),
                          ![t].pc = "saveGetUrl"]
  /\ traces' = [traces EXCEPT ![t] = @ \cup {"workflow_execution", "chat_interaction"}]
  /\ UNCHANGED <<chatStreams, subject, client, published, meta, blob, index, clock>>

\* runWorkflow's catch block after its trace settles, then its finally
\* block, with no await between them
CatchFinally(t) ==
  /\ turn[t].pc = "catch"
  /\ turn' = [turn EXCEPT ![t].pc = "done"]
  /\ traces' = [traces EXCEPT ![t] = @ \cup {"chat_service_error"}]
  /\ Finally(t, CatchBlock(Chan(t)))
  /\ UNCHANGED <<published, meta, blob, index, clock>>

(* --------------------- ChatService.saveChatHistory -------------------- *)

\* an entry of the message as the request carried it, placeholder or not
NewEntryAsSent(tr, now) ==
  [timestamp |-> now,
   userMessage |-> tr.textInput,
   llmResponse |-> tr.finalResponse[1]]

\* the entry saveChatHistory appends: runWorkflow passes
\* request.message ?? 'No message provided' and result.finalResponse
NewEntry(tr, now) ==
  [timestamp |-> now,
   userMessage |-> Coalesce(tr.textInput, "No message provided"),
   llmResponse |-> tr.finalResponse[1]]

\* chatHistory.push(newEntry)
PushEntryTwice(history, entry) == Append(Append(history, entry), entry)

\* chatHistory.push(newEntry)
PushEntry(history, entry) == Append(history, entry)

\* one raw asset for every session
HistoryPublicIdShared(s) == "A"

\* CloudinaryService.uploadChatHistory: public_id `chat_history/${sessionId}`
HistoryPublicId(s) == s

\* saveChatHistory returns normally and runWorkflow runs its finally block
SaveReturns(t) ==
  /\ turn' = [turn EXCEPT ![t].pc = "done"]
  /\ Finally(t, Chan(t))

\* a saveChatHistory whose catch rethrows to runWorkflow
SaveCatchRethrows(t, what) ==
  /\ turn' = [turn EXCEPT ![t].pc = "catch", ![t].error = "PersistError",
                          ![t].saveError = what]
  /\ UNCHANGED <<chatStreams, subject, client>>

\* the catch of saveChatHistory: the error is logged, saveChatHistory
\* returns and runWorkflow runs its finally block
SaveCatch(t, what) ==
  /\ turn' = [turn EXCEPT ![t].pc = "done", ![t].saveError = what]
  /\ Finally(t, Chan(t))

\* saveChatHistory: supabaseService.getHistoryUrl settles.  With no url the
\* entry is pushed on an empty history and the upload is awaited.
SaveGetUrl(t, ok, dt) ==
  /\ turn[t].pc = "saveGetUrl"
  /\ IF ~ok
     THEN SaveCatch(t, "getHistoryUrl") /\ UNCHANGED clock
     ELSE LET url == GetHistoryUrl(turn[t].sessionId) IN
          IF Truthy(url)
          THEN /\ turn' = [turn EXCEPT ![t].pc = "saveDownload", ![t].fileUrl = url]
               /\ UNCHANGED <<chatStreams, subject, client, clock>>
          ELSE /\ clock' = clock + dt
               /\ turn' = [turn EXCEPT ![t].pc = "saveUpload",
                                       ![t].saving =
                                          PushEntry(<<>>, NewEntry(turn[t], clock'))]
               /\ UNCHANGED <<chatStreams, subject, client>>
  /\ UNCHANGED <<published, traces, meta, blob, index>>

\* saveChatHistory: cloudinaryService.downloadChatHistory settles (a failed
\* download is logged inside it and settles as []); the entry is pushed on
\* what it returned and the upload is awaited
SaveDownload(t, ok, dt) ==
  /\ turn[t].pc = "saveDownload"
  /\ clock' = clock + dt
  /\ turn' = [turn EXCEPT ![t].pc = "saveUpload",
                          ![t].saveError = IF ok THEN @ ELSE "download",
                          ![t].saving =
                             PushEntry(DownloadChatHistory(turn[t].fileUrl, ok),
                                       NewEntry(turn[t], clock'))]
  /\ UNCHANGED <<chatStreams, subject, client, published, traces, meta, blob, index>>

\* a saveChatHistory that logs a failed upload and goes on to the upsert
\* with the url it did not get
SaveUploadGoesOn(t, ok) ==
  /\ turn[t].pc = "saveUpload"
  /\ IF ok
     THEN /\ blob' = [blob EXCEPT ![HistoryPublicId(turn[t].sessionId)] =
                        Some(turn[t].saving)]
          /\ turn' = [turn EXCEPT ![t].pc = "saveUpsert",
                                  ![t].newFileUrl = HistoryPublicId(turn[t].sessionId)]
     ELSE /\ turn' = [turn EXCEPT ![t].pc = "saveUpsert", ![t].saveError = "upload"]
          /\ UNCHANGED blob
  /\ UNCHANGED <<chatStreams, subject, client, published, traces, meta, index, clock>>

\* saveChatHistory: cloudinaryService.uploadChatHistory settles: the asset
\* chat_history/<sessionId> is overwritten and its url returned
SaveUpload(t, ok) ==
  /\ turn[t].pc = "saveUpload"
  /\ IF ok
     THEN /\ blob' = [blob EXCEPT ![HistoryPublicId(turn[t].sessionId)] =
                        Some(turn[t].saving)]
          /\ turn' = [turn EXCEPT ![t].pc = "saveUpsert",
                                  ![t].newFileUrl = HistoryPublicId(turn[t].sessionId)]
          /\ UNCHANGED <<chatStreams, subject, client>>
     ELSE SaveCatch(t, "upload") /\ UNCHANGED blob
  /\ UNCHANGED <<published, traces, meta, index, clock>>

\* the title runWorkflow passes on: result.title, which no code sets
ChatTitle(tr) == Undefined

\* saveChatHistory: supabaseService.upsertHistoryUrl settles; the title
\* write follows when chatTitle !== ""
SaveUpsert(t, ok) ==
  /\ turn[t].pc = "saveUpsert"
  /\ IF ok
     THEN /\ meta' = [meta EXCEPT ![turn[t].sessionId] =
                        UpsertHistoryUrl(@, turn[t].newFileUrl)]
          /\ IF ChatTitle(turn[t]) # ""
             THEN /\ turn' = [turn EXCEPT ![t].pc = "saveTitle"]
                  /\ UNCHANGED <<chatStreams, subject, client>>
             ELSE SaveReturns(t)
     ELSE SaveCatch(t, "upsert") /\ UNCHANGED meta
  /\ UNCHANGED <<published, traces, blob, index, clock>>

\* saveChatHistory: supabaseService.insertHistoryTitle settles
SaveTitle(t, ok) ==
  /\ turn[t].pc = "saveTitle"
  /\ IF ok
     THEN /\ meta' = [meta EXCEPT ![turn[t].sessionId] =
                        InsertHistoryTitle(@, ChatTitle(turn[t]))]
          /\ SaveReturns(t)
     ELSE SaveCatch(t, "title") /\ UNCHANGED meta
  /\ UNCHANGED <<published, traces, blob, index, clock>>

(* ------------------------- ChatController ----------------------------- *)

\* the file lists one request may carry
RECURSIVE SeqsUpTo(_, _)
SeqsUpTo(S, n) ==
  IF n = 0 THEN {<<>>}
  ELSE LET shorter == SeqsUpTo(S, n - 1) IN
       shorter \cup {Append(q, x) : q \in shorter, x \in S}
FileLists == SeqsUpTo(FileKinds, MaxFiles)

\* a guard that tests for a missing message and lets an empty one through
BadRequestMissingOnly(msg, files) == msg = Undefined /\ Len(files) = 0

\* ChatController.create's guard: neither a message nor a file
BadRequest(msg, files) == ~Truthy(msg) /\ Len(files) = 0

\* POST /chat: ChatController.create.  A request with neither a message nor
\* a file is answered with the HttpException BAD_REQUEST before initiateChat
\* is called; the turn keeps what the request carried and what it was
\* answered.
Create(t, msg, sid, files) ==
  IF BadRequest(msg, files)
  THEN /\ turn[t].pc = "idle"
       /\ turn' = [turn EXCEPT ![t] =
                     [IdleTurn EXCEPT !.returned = "BadRequest",
                                      !.textInput = msg, !.files = files]]
       /\ UNCHANGED <<chatStreams, subject, client, published, traces, meta,
                      blob, index, clock>>
  ELSE InitiateChat(t, msg, sid, files)

\* GET /chat/stream/:streamId: ChatController.stream calls
\* ChatService.getChatStream and the framework subscribes to the result
GetChatStream(c, id) ==
  /\ client[c].state = "idle"
  /\ IF id \notin chatStreams
     THEN /\ client' = [client EXCEPT ![c].state = "notfound", ![c].streamId = id,
                                      ![c].missed = Len(published[id])]
          /\ UNCHANGED subject
     ELSE LET ch == SubjectSubscribe(Chan(id), c, id, Len(published[id])) IN
          /\ client' = ch.cl
          /\ subject' = [subject EXCEPT ![id] = ch.subj]
  /\ UNCHANGED <<chatStreams, turn, published, traces, meta, blob, index, clock>>

\* an unsubscribe that also aborts the background task of the stream
DisconnectAborts(c) ==
  /\ client[c].state = "attached"
  /\ client' = [client EXCEPT ![c].state = "gone"]
  /\ subject' = [subject EXCEPT ![client[c].streamId].observers = @ \ {c}]
  /\ turn' = [turn EXCEPT ![client[c].streamId].pc = "catch",
                          ![client[c].streamId].error = "Aborted"]
  /\ UNCHANGED <<chatStreams, published, traces, meta, blob, index, clock>>

\* the client closes its SSE connection: the framework unsubscribes
Disconnect(c) ==
  /\ client[c].state = "attached"
  /\ client' = [client EXCEPT ![c].state = "gone"]
  /\ subject' = [subject EXCEPT ![client[c].streamId].observers = @ \ {c}]
  /\ UNCHANGED <<chatStreams, turn, published, traces, meta, blob, index, clock>>

\* a getChatHistory that lets the failure of getHistoryUrl reach the
\* controller, which answers with an HttpException
HistoryRequestThrows(c, s, ok) ==
  /\ client[c].state = "idle"
  /\ client' = [client EXCEPT ![c] =
       IF ~ok \/ ~Truthy(GetHistoryUrl(s))
       THEN [@ EXCEPT !.state = "failed", !.sessionId = s]
       ELSE [@ EXCEPT !.state = "history", !.sessionId = s,
                      !.fileUrl = GetHistoryUrl(s)]]
  /\ UNCHANGED <<chatStreams, subject, turn, published, traces, meta, blob,
                 index, clock>>

\* GET /chat/:sessionId: ChatController.getChatHistory calls
\* ChatService.getChatHistory(sessionId), whose getHistoryUrl settles.  No
\* row, or a throw (caught by getChatHistory), and the reply holds [].
HistoryRequest(c, s, ok) ==
  /\ client[c].state = "idle"
  /\ LET url == IF ok THEN GetHistoryUrl(s) ELSE Undefined IN
     client' = [client EXCEPT ![c] =
       IF Truthy(url)
       THEN [@ EXCEPT !.state = "history", !.sessionId = s, !.fileUrl = url]
       ELSE [@ EXCEPT !.state = "replied", !.sessionId = s,
                      !.history = Some(<<>>),
                      !.loadError = IF ok THEN "none" ELSE "getHistoryUrl"]]
  /\ UNCHANGED <<chatStreams, subject, turn, published, traces, meta, blob,
                 index, clock>>

\* GET /chat/:sessionId: downloadChatHistory settles and the controller
\* replies {sessionId, history, count}; no limit is passed
HistoryReply(c, ok) ==
  /\ client[c].state = "history"
  /\ client' = [client EXCEPT ![c].state = "replied",
                  ![c].loadError = IF ok THEN "none" ELSE "download",
                  ![c].history =
                     Some(LimitHistory(DownloadChatHistory(client[c].fileUrl, ok),
                                       None))]
  /\ UNCHANGED <<chatStreams, subject, turn, published, traces, meta, blob,
                 index, clock>>

(* --------------------------- specification ---------------------------- *)

\* one step of the background task of stream id t: an await settles.
\* ticks: by how much the clock may have advanced when new Date() reads it.
TurnStepAt(t, ticks) ==
  \/ \E ok \in BOOLEAN : LoadHistoryUrl(t, ok)
  \/ \E ok \in BOOLEAN : LoadHistoryBlob(t, ok)
  \/ \E ok \in BOOLEAN, n \in SplitCounts : ProcessFile(t, ok, n)
  \/ \E ok \in BOOLEAN : StoreContent(t, ok)
  \/ \E ok \in BOOLEAN : SearchSimilar(t, ok)
  \/ \E ok \in BOOLEAN : LlmStream(t, ok)
  \/ \E content \in ChunkContents : StreamChunk(t, content)
  \/ StreamFail(t)
  \/ StreamEnd(t)
  \/ CatchFinally(t)
  \/ \E ok \in BOOLEAN, dt \in ticks : SaveGetUrl(t, ok, dt)
  \/ \E ok \in BOOLEAN, dt \in ticks : SaveDownload(t, ok, dt)
  \/ \E ok \in BOOLEAN : SaveUpload(t, ok)
  \/ \E ok \in BOOLEAN : SaveUpsert(t, ok)
  \/ \E ok \in BOOLEAN : SaveTitle(t, ok)

\* a turn that is alone reads the clock once: one width stands for all
TurnStep(t) == TurnStepAt(t, {1})

Next ==
  \/ \E t \in SoloStreams, msg \in Messages, sid \in CallerSessions \cup {Undefined},
        files \in FileLists :
       Create(t, msg, sid, files)
  \/ \E c \in SoloClients, id \in StreamIds : GetChatStream(c, id)
  \/ \E c \in SoloClients : Disconnect(c)
  \/ \E t \in SoloStreams : TurnStep(t)

Spec == Init /\ [][Next]_vars

\* The background task alone: one turn with every request the controller
\* lets through and every outcome of every await, and no subscriber (a
\* subscriber changes no step of the task).
WorkflowNext ==
  \/ \E t \in SoloStreams, msg \in Messages, sid \in CallerSessions \cup {Undefined},
        files \in FileLists :
       Create(t, msg, sid, files)
  \/ \E t \in SoloStreams : TurnStep(t)

WorkflowSpec == Init /\ [][WorkflowNext]_vars

\* one step of the background task, every await settling either way; the
\* fragments of the stream all hold "a" (what a fragment holds decides no
\* step of the task)
LiveStep(t) ==
  \/ \E ok \in BOOLEAN : LoadHistoryUrl(t, ok)
  \/ \E ok \in BOOLEAN : LoadHistoryBlob(t, ok)
  \/ \E ok \in BOOLEAN, n \in SplitCounts : ProcessFile(t, ok, n)
  \/ \E ok \in BOOLEAN : StoreContent(t, ok)
  \/ \E ok \in BOOLEAN : SearchSimilar(t, ok)
  \/ \E ok \in BOOLEAN : LlmStream(t, ok)
  \/ StreamChunk(t, <<"a">>)
  \/ StreamFail(t)
  \/ StreamEnd(t)
  \/ CatchFinally(t)
  \/ \E ok \in BOOLEAN : SaveGetUrl(t, ok, 1)
  \/ \E ok \in BOOLEAN : SaveDownload(t, ok, 1)
  \/ \E ok \in BOOLEAN : SaveUpload(t, ok)
  \/ \E ok \in BOOLEAN : SaveUpsert(t, ok)
  \/ \E ok \in BOOLEAN : SaveTitle(t, ok)

LiveNext ==
  \/ \E t \in SoloStreams, sid \in CallerSessions \cup {Undefined}, files \in FileLists :
       Create(t, "hi", sid, files)
  \/ \E t \in SoloStreams : LiveStep(t)

\* The background task of a request with the message "hi", where every
\* await of a started turn settles in the end.
LiveSpec ==
  Init /\ [][LiveNext]_vars /\ \A t \in SoloStreams : WF_vars(LiveStep(t))

\* one step of the background task of a request without files: processFiles
\* and storeContent are not called, every other await settles either way
TextStep(t) ==
  \/ \E ok \in BOOLEAN : LoadHistoryUrl(t, ok)
  \/ \E ok \in BOOLEAN : LoadHistoryBlob(t, ok)
  \/ \E ok \in BOOLEAN : SearchSimilar(t, ok)
  \/ \E ok \in BOOLEAN : LlmStream(t, ok)
  \/ \E content \in ChunkContents : StreamChunk(t, content)
  \/ StreamFail(t)
  \/ StreamEnd(t)
  \/ CatchFinally(t)
  \/ \E ok \in BOOLEAN : SaveGetUrl(t, ok, 1)
  \/ \E ok \in BOOLEAN : SaveDownload(t, ok, 1)
  \/ \E ok \in BOOLEAN : SaveUpload(t, ok)
  \/ \E ok \in BOOLEAN : SaveUpsert(t, ok)
  \/ \E ok \in BOOLEAN : SaveTitle(t, ok)

\* The channel and its subscriber: one turn of a request that carries a
\* message and no file, and one SSE connection that may ask for any id at
\* any moment and may leave.
StreamNext ==
  \/ \E t \in SoloStreams, msg \in Messages, sid \in CallerSessions \cup {Undefined} :
       Create(t, msg, sid, <<>>)
  \/ \E c \in SoloClients, id \in StreamIds : GetChatStream(c, id)
  \/ \E c \in SoloClients : Disconnect(c)
  \/ \E t \in SoloStreams : TextStep(t)

StreamSpec == Init /\ [][StreamNext]_vars

\* Two turns, side by side or one after the other, on one session or on
\* two.  Their requests carry a message and no file; each has a message and
\* a fragment of its own, so that an entry or a fragment names its turn.
DuoMessage(t) == IF t = "s1" THEN "hi" ELSE "yo"
DuoChunk(t) == IF t = "s1" THEN <<"a">> ELSE <<"b">>
\* two reads of new Date() may fall in the same millisecond
DuoTicks == {0, 1}

\* one step of the background task of a request without files.  The reads
\* before generation (history for the prompt, retrieval) succeed: their
\* failures change the prompt alone, and Spec covers them.
DuoStep(t) ==
  \/ LoadHistoryUrl(t, TRUE)
  \/ LoadHistoryBlob(t, TRUE)
  \/ SearchSimilar(t, TRUE)
  \/ \E ok \in BOOLEAN : LlmStream(t, ok)
  \/ StreamChunk(t, DuoChunk(t))
  \/ StreamFail(t)
  \/ StreamEnd(t)
  \/ CatchFinally(t)
  \/ \E ok \in BOOLEAN, dt \in DuoTicks : SaveGetUrl(t, ok, dt)
  \/ \E ok \in BOOLEAN, dt \in DuoTicks : SaveDownload(t, ok, dt)
  \/ \E ok \in BOOLEAN : SaveUpload(t, ok)
  \/ \E ok \in BOOLEAN : SaveUpsert(t, ok)
  \/ \E ok \in BOOLEAN : SaveTitle(t, ok)

DuoNext ==
  \/ \E t \in StreamIds, sid \in CallerSessions \cup {Undefined} :
       Create(t, DuoMessage(t), sid, <<>>)
  \/ \E t \in StreamIds : DuoStep(t)

DuoSpec == Init /\ [][DuoNext]_vars

\* one step of the background task of a request without files whose
\* retrieval and generation succeed and yield the fragment "a": the reads
\* and writes of the history settle either way
HistoryStep(t) ==
  \/ \E ok \in BOOLEAN : LoadHistoryUrl(t, ok)
  \/ \E ok \in BOOLEAN : LoadHistoryBlob(t, ok)
  \/ SearchSimilar(t, TRUE)
  \/ LlmStream(t, TRUE)
  \/ StreamChunk(t, <<"a">>)
  \/ StreamEnd(t)
  \/ \E ok \in BOOLEAN : SaveGetUrl(t, ok, 1)
  \/ \E ok \in BOOLEAN : SaveDownload(t, ok, 1)
  \/ \E ok \in BOOLEAN : SaveUpload(t, ok)
  \/ \E ok \in BOOLEAN : SaveUpsert(t, ok)
  \/ \E ok \in BOOLEAN : SaveTitle(t, ok)

\* The history of a session: one turn on a session that holds any history,
\* or on a new one, and one request for the history of any session.
HistoryNext ==
  \/ \E t \in SoloStreams, sid \in CallerSessions \cup {Undefined} :
       Create(t, "hi", sid, <<>>)
  \/ \E c \in SoloClients, s \in SessionIds, ok \in BOOLEAN : HistoryRequest(c, s, ok)
  \/ \E c \in SoloClients, ok \in BOOLEAN : HistoryReply(c, ok)
  \/ \E t \in SoloStreams : HistoryStep(t)

HistorySpec == HistoryInit /\ [][HistoryNext]_vars

\* the file lists of a request that carries one file more than FileLists
\* allows: a file of it has a file before or after it
IngestFileLists == SeqsUpTo(FileKinds, MaxFiles + 1)

\* one step of the background task of a request with files: the reads and
\* writes of the history succeed and the stream yields the fragment "a";
\* every file, the indexing, the retrieval and the generation settle
\* either way
IngestStep(t) ==
  \/ LoadHistoryUrl(t, TRUE)
  \/ LoadHistoryBlob(t, TRUE)
  \/ \E ok \in BOOLEAN, n \in SplitCounts : ProcessFile(t, ok, n)
  \/ \E ok \in BOOLEAN : StoreContent(t, ok)
  \/ \E ok \in BOOLEAN : SearchSimilar(t, ok)
  \/ \E ok \in BOOLEAN : LlmStream(t, ok)
  \/ StreamChunk(t, <<"a">>)
  \/ StreamEnd(t)
  \/ CatchFinally(t)
  \/ SaveGetUrl(t, TRUE, 1)
  \/ SaveDownload(t, TRUE, 1)
  \/ SaveUpload(t, TRUE)
  \/ SaveUpsert(t, TRUE)
  \/ SaveTitle(t, TRUE)

\* The ingestion of the files of one request on session "A".
IngestNext ==
  \/ \E t \in SoloStreams, msg \in Messages, files \in IngestFileLists :
       Create(t, msg, "A", files)
  \/ \E t \in SoloStreams : IngestStep(t)

IngestSpec == Init /\ [][IngestNext]_vars

TypeOK ==
  /\ chatStreams \subseteq StreamIds
  /\ \A t \in StreamIds : subject[t].status \in {"none", "open", "errored", "completed"}

(* ------------------------------ properties ---------------------------- *)

\* runWorkflow of t has returned
Done(t) == turn[t].pc = "done"
\* the Subject of t has been stopped by error() or complete()
Terminated(t) == subject[t].status \in {"errored", "completed"}
\* connection c holds a subscription that it has not given up
Subscribed(c) == client[c].state \in {"attached", "closed"}

\* the concatenation of a sequence of strings
RECURSIVE Concat(_)
Concat(ss) == IF ss = <<>> THEN <<>> ELSE Head(ss) \o Concat(Tail(ss))

\* C1: every channel initiateChat registers is in the end stopped and out
\* of chatStreams, whichever await of the background task fails, as long
\* as every await settles.
C1_ChannelReleased ==
  \A t \in StreamIds :
    (t \in chatStreams) ~> (t \notin chatStreams /\ Terminated(t))

\* a turn whose indexing threw has left through catch and finally
C1_Witness ==
  \E t \in StreamIds :
    /\ Done(t) /\ turn[t].error = "IndexError"
    /\ t \notin chatStreams /\ Terminated(t)

\* C2: a channel takes exactly one terminal notification in its life, one
\* error or one completion; a failed turn ends it with error and no
\* completion follows; a subscriber is told the same single notification.
C2_OneTerminal ==
  /\ \A t \in StreamIds :
       /\ Len(subject[t].terminals) <= 1
       /\ Terminated(t) <=> Len(subject[t].terminals) = 1
       /\ Done(t) => Terminated(t)
       /\ Done(t) /\ turn[t].error # "none" => subject[t].terminals = <<"error">>
       /\ Done(t) /\ turn[t].error = "none" => subject[t].terminals = <<"complete">>
  /\ \A c \in Clients :
       client[c].terminal # "none" =>
         subject[client[c].streamId].terminals = <<client[c].terminal>>

\* a failed turn has run catch and finally, with a subscriber attached
C2_Witness ==
  \E t \in StreamIds, c \in Clients :
    /\ Done(t) /\ turn[t].error = "GenerationError"
    /\ subject[t].terminals = <<"error">>
    /\ client[c].streamId = t /\ client[c].terminal = "error"

\* C3: a subscriber that attaches after k fragments were published and
\* before the channel ends has, when the channel ends, received every
\* fragment published since the channel was opened, the first k too.
C3_NothingDroppedBeforeSubscribe ==
  \A c \in Clients :
    client[c].state = "closed" =>
      client[c].received = published[client[c].streamId]

\* C4: a subscriber attached before the first publish and still attached
\* has received exactly the published fragments in publish order, and
\* holds the terminal notification as soon as the channel has one.
C4_OrderedDelivery ==
  \A c \in Clients :
    Subscribed(c) /\ client[c].missed = 0 =>
      LET t == client[c].streamId IN
      /\ client[c].received = published[t]
      /\ client[c].state = "attached" => ~Terminated(t) /\ client[c].terminal = "none"
      /\ client[c].state = "closed" =>
           Terminated(t) /\ subject[t].terminals = <<client[c].terminal>>

\* two different fragments arrived in order, then the completion
C4_Witness ==
  \E c \in Clients :
    /\ client[c].state = "closed" /\ client[c].missed = 0
    /\ client[c].received = <<<<"b">>, <<"a">>>>
    /\ client[c].terminal = "complete"

\* C5: getChatStream answers not-found exactly when the Subject of the
\* stream id was never constructed or is already stopped, and attaches the
\* caller to every Subject that is constructed and not stopped.
C5_SubscribeOutcome ==
  [][\A c \in Clients :
       client[c].state = "idle" /\ client'[c].state # "idle" =>
         IF subject[client'[c].streamId].status = "open"
         THEN client'[c].state = "attached"
         ELSE client'[c].state = "notfound"]_vars

\* not-found for a stream that was opened and has ended
C5_Witness ==
  \E c \in Clients :
    /\ client[c].state = "notfound"
    /\ client[c].missed > 0
    /\ Terminated(client[c].streamId)

\* C6: a client whose subscribe succeeded and who stays connected is never
\* left attached to an ended channel, and when it is handed the completion
\* it has received the fragments of the whole response, in order.
C6_WholeResponseOrError ==
  \A c \in Clients :
    Subscribed(c) =>
      LET t == client[c].streamId IN
      /\ client[c].state = "attached" => ~Terminated(t)
      /\ client[c].terminal = "complete" =>
           /\ turn[t].finalResponse # None
           /\ Concat(client[c].received) = turn[t].finalResponse[1]

\* C7: when the generator fails, before its first chunk or in mid-stream,
\* no step of that turn changes the history asset or the chat_history row,
\* and the turn ends with its channel errored.
C7_GeneratorFailureNoPersist ==
  [][\A t \in StreamIds :
       turn'[t].error = "GenerationError" =>
         /\ blob' = blob
         /\ meta' = meta
         /\ Done(t)' => subject'[t].terminals = <<"error">>]_vars

\* the generator failed in mid-stream on a session that has a history, and
\* the turn has ended
C7_Witness ==
  \E t \in StreamIds :
    /\ Done(t) /\ turn[t].error = "GenerationError"
    /\ published[t] # <<>>
    /\ turn[t].sessionId = "A"
    /\ subject[t].status = "errored"

\* C8: a failure of storeContent does not fail the turn: the turn goes on,
\* and when it ends without a generator failure its channel is completed
\* and its entry is in the history.
C8_IndexingFailureTolerated ==
  \A t \in StreamIds :
    "vector_store_error" \in traces[t] =>
      /\ turn[t].error # "IndexError"
      /\ Done(t) /\ turn[t].error = "none" => subject[t].terminals = <<"complete">>

\* C9: indexing does not block the turn: while the storeContent of a turn
\* has not settled, the retrieval of that turn can already settle.
C9_IndexingDoesNotBlock ==
  \A t \in StreamIds :
    turn[t].pc = "storeContent" => ENABLED (\E ok \in BOOLEAN : SearchSimilar(t, ok))

\* C10: when searchSimilar fails the turn goes on with an empty
\* retrievedContext; only the generator can still fail it, and when the
\* generator yields content the turn ends with a non-empty finalResponse
\* and a completed channel.
C10_RetrievalFailureDegrades ==
  \A t \in StreamIds :
    "vector_search_error" \in traces[t] =>
      /\ turn[t].retrievedContext = <<>>
      /\ turn[t].error \in {"none", "GenerationError"}
      /\ turn[t].error = "none" => turn[t].pc # "catch"
      /\ Done(t) /\ turn[t].error = "none" =>
           /\ subject[t].terminals = <<"complete">>
           /\ turn[t].finalResponse # None
           /\ published[t] # <<>> => turn[t].finalResponse[1] # <<>>

\* retrieval failed, the generator yielded content, the turn ended completed
C10_Witness ==
  \E t \in StreamIds :
    /\ Done(t) /\ "vector_search_error" \in traces[t]
    /\ turn[t].finalResponse = Some(<<"a", "b">>)
    /\ subject[t].status = "completed"

\* ChatService.getChatHistory(sessionId) with no limit, as GET /chat/:sessionId
\* calls it, when both of its reads succeed
GetChatHistory(s) ==
  LET url == GetHistoryUrl(s) IN
  IF Truthy(url) THEN DownloadChatHistory(url, TRUE) ELSE <<>>

\* the history a session held before any turn of the model
InitialHistory(s) == IF s = "A" THEN InitHistory ELSE <<>>
\* p is a prefix of h
IsPrefix(p, h) == Len(p) <= Len(h) /\ SubSeq(h, 1, Len(p)) = p
\* entry e was made by saveChatHistory for turn t
IsEntryOf(e, t) ==
  /\ turn[t].finalResponse # None
  /\ e.userMessage = Coalesce(turn[t].textInput, "No message provided")
  /\ e.llmResponse = turn[t].finalResponse[1]
\* the places of history h that hold an entry of turn t
PlacesOf(h, t) == {i \in 1..Len(h) : IsEntryOf(h[i], t)}
\* generation and every persistence step of turn t succeeded
CleanTurn(t) == Done(t) /\ turn[t].error = "none" /\ turn[t].saveError = "none"

\* C11: once a step of saveChatHistory has failed, the turn is not failed
\* by it: its channel stays open until runWorkflow returns, then carries the
\* single notification complete, and no subscriber of it is told error.
C11_PersistFailureCompletes ==
  \A t \in StreamIds :
    turn[t].saveError # "none" =>
      /\ turn[t].error = "none"
      /\ turn[t].pc # "catch"
      /\ Done(t) => subject[t].terminals = <<"complete">> /\ t \notin chatStreams
      /\ ~Done(t) => subject[t].status = "open"
      /\ \A c \in Clients : client[c].streamId = t => client[c].terminal # "error"

\* the upsert of the pointer failed and the attached subscriber, who
\* received the response, was told complete
C11_Witness ==
  \E t \in StreamIds, c \in Clients :
    /\ Done(t) /\ turn[t].saveError = "upsert"
    /\ client[c].streamId = t /\ client[c].terminal = "complete"
    /\ client[c].received # <<>>

\* C12: when two turns of one session ran one after the other and both
\* channels ended completed, the history of the session is the one it had
\* before, then the entry of the first turn, then the entry of the second,
\* with timestamps that do not decrease.
C12_SequentialHistory ==
  \A t, u \in StreamIds :
    ( /\ Done(t) /\ Done(u) /\ t \in turn[u].after
      /\ turn[t].sessionId = turn[u].sessionId
      /\ subject[t].terminals = <<"complete">>
      /\ subject[u].terminals = <<"complete">> ) =>
      LET h == GetChatHistory(turn[t].sessionId)
          base == InitialHistory(turn[t].sessionId)
          n == Len(h)
      IN /\ n = Len(base) + 2
         /\ IsPrefix(base, h)
         /\ IsEntryOf(h[n - 1], t) /\ IsEntryOf(h[n], u)
         /\ \A i \in 1..(n - 1) : h[i].timestamp <= h[i + 1].timestamp

\* C13: no step removes, rewrites or reorders an entry of a stored history:
\* the asset of a session before a step is a prefix of the asset after it.
C13_AppendOnly ==
  [][\A s \in SessionIds :
       blob[s] # None => blob'[s] # None /\ IsPrefix(blob[s][1], blob'[s][1])]_vars

\* turns t and u ran on one session, side by side: neither began after the
\* other had returned
Overlapped(t, u) ==
  /\ t # u /\ turn[t].sessionId = turn[u].sessionId
  /\ t \notin turn[u].after /\ u \notin turn[t].after

\* C14: two turns of one session that both generated and persisted with no
\* collaborator error leave a history that begins with the earlier one and
\* holds the entry of at least one of them; it holds both, in order, when
\* one turn ran after the other, so an entry is lost only by turns that
\* overlap -- and there is such a run (the witness).
C14_LastWriteWins ==
  \A t, u \in StreamIds :
    (t # u /\ CleanTurn(t) /\ CleanTurn(u) /\ turn[t].sessionId = turn[u].sessionId) =>
      LET h == GetChatHistory(turn[t].sessionId)
          base == InitialHistory(turn[t].sessionId)
      IN
      /\ IsPrefix(base, h)
      /\ Len(h) \in {Len(base) + 1, Len(base) + 2}
      /\ PlacesOf(h, t) \cup PlacesOf(h, u) = (Len(base) + 1)..Len(h)
      /\ t \in turn[u].after =>
           /\ PlacesOf(h, t) = {Len(base) + 1}
           /\ PlacesOf(h, u) = {Len(base) + 2}

\* both turns persisted without error, and the history reached through the
\* pointer holds the entry of s2 alone
C14_Witness ==
  /\ CleanTurn("s1") /\ CleanTurn("s2") /\ Overlapped("s1", "s2")
  /\ turn["s1"].sessionId = "A"
  /\ PlacesOf(GetChatHistory("A"), "s1") = {}
  /\ PlacesOf(GetChatHistory("A"), "s2") = {Len(InitHistory) + 1}

\* C15: no stored history, and no history a turn is about to upload, holds
\* the entry of one turn more than once.
C15_NoDuplicateEntry ==
  \A t \in StreamIds :
    /\ \A s \in SessionIds :
         blob[s] # None => Cardinality(PlacesOf(blob[s][1], t)) <= 1
    /\ \A u \in StreamIds : Cardinality(PlacesOf(turn[u].saving, t)) <= 1

\* two overlapping turns of one session have both stored their entry: the
\* second download saw the first upload
C15_Witness ==
  /\ CleanTurn("s1") /\ CleanTurn("s2") /\ Overlapped("s1", "s2")
  /\ Cardinality(PlacesOf(GetChatHistory(turn["s1"].sessionId), "s1")) = 1
  /\ Cardinality(PlacesOf(GetChatHistory(turn["s1"].sessionId), "s2")) = 1

\* the turns whose closure a step changed
Stepped == {t \in StreamIds : turn'[t] # turn[t]}

\* C16: a step changes the asset, the row or the index of a session only
\* when it is the step of one turn and that turn is on this session; and
\* the fragments and notifications of a channel change only in a step of its
\* own turn, by fragments of that turn.
C16_SessionsIndependent ==
  [][/\ \A s \in SessionIds :
          (blob'[s] # blob[s] \/ meta'[s] # meta[s] \/ index'[s] # index[s]) =>
            \E t \in StreamIds : Stepped = {t} /\ turn[t].sessionId = s
     /\ \A t \in StreamIds :
          /\ (published'[t] # published[t] \/
              subject'[t].terminals # subject[t].terminals) => Stepped = {t}
          /\ turn'[t].response = Concat(published'[t])]_vars

\* two turns on two sessions ran side by side and each stored its own entry
\* and published its own fragments
C16_Witness ==
  /\ CleanTurn("s1") /\ CleanTurn("s2")
  /\ "s1" \notin turn["s2"].after /\ "s2" \notin turn["s1"].after
  /\ turn["s1"].sessionId = "A" /\ turn["s2"].sessionId = "B"
  /\ published["s1"] = <<<<"a">>, <<"a">>>> /\ published["s2"] = <<<<"b">>>>
  /\ PlacesOf(GetChatHistory("A"), "s1") = {Len(InitHistory) + 1}
  /\ PlacesOf(GetChatHistory("B"), "s2") = {1}

\* C17: the step in which initiateChat returns leaves the channel open and
\* registered under the id it returns, and the turn in front of its first
\* await, the read of the history: nothing has been processed, indexed,
\* retrieved, generated or traced.
C17_ReturnsBeforeWork ==
  [][\A t \in StreamIds :
       (turn[t].pc = "idle" /\ turn'[t].pc # "idle") =>
         /\ turn'[t].returned = t
         /\ t \in chatStreams' /\ subject'[t].status = "open"
         /\ turn'[t].pc = "getHistoryUrl"
         /\ turn'[t].images = <<>> /\ turn'[t].documents = <<>>
         /\ turn'[t].retrievedContext = <<>> /\ turn'[t].response = <<>>
         /\ published'[t] = <<>> /\ traces'[t] = {}
         /\ index' = index /\ blob' = blob /\ meta' = meta]_vars

\* initiateChat has returned the id of a request with a file, and the
\* background task has not taken a step
C17_Witness ==
  \E t \in StreamIds :
    /\ turn[t].pc = "getHistoryUrl" /\ turn[t].returned = t
    /\ turn[t].files # <<>> /\ t \in chatStreams

\* C18: whatever fails in the background task, what initiateChat returned
\* stays the stream id, and the failure shows as the error of the channel.
C18_FailureOnlyThroughChannel ==
  \A t \in StreamIds :
    turn[t].pc # "idle" =>
      /\ turn[t].returned = t
      /\ (Done(t) /\ turn[t].error # "none") =>
           subject[t].terminals = <<"error">> /\ t \notin chatStreams

\* the generator failed before its first fragment; the caller holds the id
C18_Witness ==
  \E t \in StreamIds :
    /\ Done(t) /\ turn[t].error = "GenerationError" /\ published[t] = <<>>
    /\ turn[t].returned = t /\ subject[t].status = "errored"

\* C19: a subscribe, a refused subscribe or a disconnect changes nothing of
\* the background task or of the stores; and a turn that returns after a
\* generation and a save without failure has stored, as the last entry of
\* its session, the whole response it published, whoever listened.
C19_SubscriberIndependent ==
  [][/\ (\E c \in Clients :
           /\ client'[c].state # client[c].state
           /\ client'[c].state \in {"attached", "notfound", "gone"}) =>
          /\ turn' = turn /\ chatStreams' = chatStreams
          /\ published' = published /\ blob' = blob /\ meta' = meta
     /\ \A t \in StreamIds :
          (~Done(t) /\ CleanTurn(t)') =>
            LET h == GetChatHistory(turn[t].sessionId)' IN
            /\ h # <<>>
            /\ h[Len(h)].userMessage =
                 Coalesce(turn'[t].textInput, "No message provided")
            /\ h[Len(h)].llmResponse = Concat(published'[t])]_vars

\* the subscriber left after the first fragment; the turn went on, and its
\* entry holds both fragments
C19_Witness ==
  \E t \in StreamIds, c \in Clients :
    /\ CleanTurn(t)
    /\ client[c].state = "gone" /\ client[c].streamId = t
    /\ client[c].received = <<<<"a">>>> /\ published[t] = <<<<"a">>, <<"b">>>>
    /\ GetChatHistory(turn[t].sessionId)[Len(GetChatHistory(turn[t].sessionId))].llmResponse
         = <<"a", "b">>

\* C20: in every state a subscribe call can meet, a channel is registered
\* exactly while its Subject is open: a channel that got its notification
\* is out of the registry, and one out of the registry got exactly one.
C20_TerminationAtomic ==
  \A t \in StreamIds :
    /\ t \in chatStreams <=> subject[t].status = "open"
    /\ Terminated(t) <=> (turn[t].pc # "idle" /\ t \notin chatStreams)
    /\ Terminated(t) => Len(subject[t].terminals) = 1

\* a subscribe call was refused for a channel that had been errored
C20_Witness ==
  \E t \in StreamIds, c \in Clients :
    /\ client[c].state = "notfound" /\ client[c].streamId = t
    /\ subject[t].terminals = <<"error">> /\ t \notin chatStreams

\* C21 as stated: once finalResponse is set it is the concatenation of the
\* fragments the generator produced, and the fragments handed to the
\* channel are exactly the fragments the generator produced, in order: as
\* many were handed over as were produced, and they make up the response.
C21_EveryFragmentForwarded ==
  \A t \in StreamIds :
    turn[t].finalResponse # None =>
      /\ turn[t].finalResponse[1] = Concat(published[t])
      /\ Len(published[t]) = turn[t].nChunks

\* C21: every fragment the generator produces is either added to the end
\* of the response and handed to the channel as the next fragment, or, when
\* it is empty, neither; so the response is at every moment the
\* concatenation, in emission order, of the fragments produced, and so is
\* finalResponse once set; the fragments handed to the channel are the
\* non-empty ones, in that order, and a subscriber attached before the
\* first of them has been handed exactly those.
C21_ResponseIsConcatenation ==
  [][\A t \in StreamIds :
       /\ turn'[t].nChunks = turn[t].nChunks + 1 =>
            \/ \E content \in ChunkContents \ {<<>>} :
                 /\ turn'[t].response = turn[t].response \o content
                 /\ published'[t] = Append(published[t], content)
            \/ /\ turn'[t].response = turn[t].response
               /\ published'[t] = published[t]
       /\ (turn'[t].nChunks = turn[t].nChunks /\ turn[t].pc # "idle") =>
            /\ turn'[t].response = turn[t].response
            /\ published'[t] = published[t]
       /\ turn'[t].response = Concat(published'[t])
       /\ \A i \in 1..Len(published'[t]) : published'[t][i] # <<>>
       /\ turn'[t].finalResponse # None =>
            turn'[t].finalResponse[1] = Concat(published'[t])
       /\ \A c \in Clients :
            ( /\ client'[c].state \in {"attached", "closed"}
              /\ client'[c].streamId = t /\ client'[c].missed = 0 ) =>
              client'[c].received = published'[t]]_vars

\* the generator produced "a" then "b": the response is "ab" and the
\* subscriber was handed the two fragments and then the completion
C21_Witness ==
  \E t \in StreamIds, c \in Clients :
    /\ Done(t) /\ turn[t].nChunks = 2
    /\ published[t] = <<<<"a">>, <<"b">>>>
    /\ turn[t].finalResponse = Some(<<"a", "b">>)
    /\ client[c].streamId = t /\ client[c].terminal = "complete"
    /\ client[c].received = <<<<"a">>, <<"b">>>>

\* C22: a turn that ran without failure has left a title on its session's
\* record exactly when it was the session's first turn, the one that found
\* no entry in the durable history.
C22_TitleOnFirstTurn ==
  \A t \in StreamIds :
    CleanTurn(t) =>
      (Truthy(meta[turn[t].sessionId].title)
         <=> InitialHistory(turn[t].sessionId) = <<>>)

\* C23: the title write is awaited only by a turn that produced a non-empty
\* title, and only while the record of its session holds no title.
C23_TitleWriteOnce ==
  \A t \in StreamIds :
    turn[t].pc = "saveTitle" =>
      /\ Truthy(ChatTitle(turn[t]))
      /\ ~Truthy(meta[turn[t].sessionId].title)

\* the entries of the raw asset of session s, [] when there is none
Asset(s) == IF blob[s] = None THEN <<>> ELSE blob[s][1]

\* C24: the chatHistory a turn holds once getChatHistory has settled without
\* a logged failure is the last 3 entries of the durable history of its
\* session, in order (all of them when there are fewer), while the upload
\* of a save whose reads succeeded stores the whole durable history with
\* the entry of the turn appended.
C24_WindowOfThree ==
  [][\A t \in StreamIds :
       /\ ( /\ turn[t].pc \in {"getHistoryUrl", "downloadHistory"}
            /\ turn'[t].pc \notin {"getHistoryUrl", "downloadHistory"}
            /\ turn'[t].loadError = "none" ) =>
            turn'[t].chatHistory =
               SliceLast(GetChatHistory(turn[t].sessionId), HistoryWindow)
       /\ ( /\ turn[t].pc = "saveUpload" /\ turn'[t].pc = "saveUpsert"
            /\ turn[t].saveError = "none" ) =>
            blob'[turn[t].sessionId] =
               Some(Append(Asset(turn[t].sessionId), NewEntry(turn[t], clock)))]_vars

\* a session that held four entries: the turn was handed the last three,
\* and the asset now holds the four and the entry of the turn
C24_Witness ==
  \E t \in StreamIds :
    /\ CleanTurn(t) /\ turn[t].loadError = "none"
    /\ Len(turn[t].chatHistory) = HistoryWindow
    /\ Len(Asset(turn[t].sessionId)) = HistoryWindow + 2
    /\ turn[t].chatHistory = SubSeq(Asset(turn[t].sessionId), 2, HistoryWindow + 1)
    /\ IsEntryOf(Asset(turn[t].sessionId)[HistoryWindow + 2], t)

\* the limits a caller may pass to keep the N most recent entries
Counts == 1..(MaxHistory + 2)

\* C25 as stated: getChatHistory called with the limit N returns the N most
\* recent entries of the durable history, in order (all of them when there
\* are fewer), and called without a limit returns the whole history.
C25_LimitIsCount ==
  \A s \in SessionIds :
    /\ \A N \in Counts :
         LimitHistory(GetChatHistory(s), Some(N)) = SliceLast(GetChatHistory(s), N)
    /\ LimitHistory(GetChatHistory(s), None) = GetChatHistory(s)

\* C25: getChatHistory called with the limit -N returns the N most recent
\* entries of the durable history, in order (all of them when there are
\* fewer); called without a limit or with the limit 0 it returns the whole
\* history, and that is what GET /chat/:sessionId replies when both of its
\* reads succeed.
C25_LimitFromTheEnd ==
  [][/\ \A s \in SessionIds :
          /\ \A N \in Counts :
               /\ LimitHistory(GetChatHistory(s), Some(0 - N))
                    = SliceLast(GetChatHistory(s), N)
               /\ LimitHistory(GetChatHistory(s)', Some(0 - N))
                    = SliceLast(GetChatHistory(s)', N)
          /\ LimitHistory(GetChatHistory(s), None) = GetChatHistory(s)
          /\ LimitHistory(GetChatHistory(s), Some(0)) = GetChatHistory(s)
     /\ \A c \in Clients :
          ( /\ client[c].state # "replied" /\ client'[c].state = "replied"
            /\ client'[c].loadError = "none" ) =>
            client'[c].history = Some(GetChatHistory(client'[c].sessionId))]_vars

\* a request was answered with the whole history of a session that holds
\* more than three entries, of which a turn was handed the last three
C25_Witness ==
  \E c \in Clients, t \in StreamIds :
    /\ client[c].state = "replied" /\ client[c].loadError = "none"
    /\ Len(client[c].history[1]) > HistoryWindow
    /\ turn[t].sessionId = client[c].sessionId
    /\ turn[t].pc = "searchSimilar" /\ turn[t].loadError = "none"
    /\ turn[t].chatHistory = SliceLast(client[c].history[1], HistoryWindow)
    /\ Len(turn[t].chatHistory) = HistoryWindow

\* C26: a request for the history of a session that has no metadata record
\* is answered with the empty sequence, and no request for a history is
\* answered with an error; a read of the history at the start of a turn
\* that fails leaves the turn with an empty chatHistory, and the turn goes
\* on to its retrieval without an error of its own.
C26_MissingHistoryIsEmpty ==
  [][/\ \A c \in Clients :
          /\ client'[c].state # "failed"
          /\ ( /\ client[c].state = "idle" /\ client'[c].sessionId # Undefined
               /\ ~meta[client'[c].sessionId].present ) =>
               /\ client'[c].state = "replied"
               /\ client'[c].history = Some(<<>>)
     /\ \A t \in StreamIds :
          /\ (turn[t].loadError = "none" /\ turn'[t].loadError # "none") =>
               /\ turn[t].pc \in {"getHistoryUrl", "downloadHistory"}
               /\ turn'[t].pc = "searchSimilar"
               /\ turn'[t].chatHistory = <<>>
          /\ turn'[t].loadError # "none" => turn'[t].error = "none"]_vars

\* the download of the history failed when the turn began; the turn went on
\* with no history, ran to its end and completed its channel; and a request
\* for the history of a session without a record was answered with []
C26_Witness ==
  \E t \in StreamIds, c \in Clients :
    /\ turn[t].loadError = "download" /\ turn[t].chatHistory = <<>>
    /\ CleanTurn(t) /\ subject[t].terminals = <<"complete">>
    /\ client[c].state = "replied" /\ client[c].history = Some(<<>>)
    /\ client[c].loadError = "none" /\ ~meta[client[c].sessionId].present

\* the places of prompt p that hold a section of kind k
Sections(p, k) == {i \in 1..Len(p) : p[i].kind = k}

\* C27: the prompt built of a state with history, newly uploaded content,
\* retrieved context and a message holds the history block before the
\* upload block before the retrieved-context block before the message
\* section, and the closing instruction last.
C27_SectionOrder ==
  \A t \in StreamIds :
    ( /\ turn[t].prompt # None
      /\ Len(turn[t].chatHistory) > 0
      /\ Len(turn[t].images \o turn[t].documents) > 0
      /\ Len(turn[t].retrievedContext) > 0
      /\ Truthy(turn[t].textInput) ) =>
      LET p == turn[t].prompt[1] IN
      /\ \E h \in Sections(p, "history"), u \in Sections(p, "upload"),
            r \in Sections(p, "retrieved"), m \in Sections(p, "message") :
           h < u /\ u < r /\ r < m
      /\ p[Len(p)].kind = "closing"

\* C28: the prompt of a state without a message holds, where the message
\* section would stand, the instruction to answer from the uploads and the
\* context, and no message section; the prompt of a state with a message
\* holds that message and not the instruction; no prompt quotes an empty
\* message.
C28_NoMessageFallback ==
  \A t \in StreamIds :
    turn[t].prompt # None =>
      LET p == turn[t].prompt[1] IN
      /\ Len(p) >= 2 /\ p[Len(p) - 1].kind \in {"message", "fallback"}
      /\ Cardinality(Sections(p, "message") \cup Sections(p, "fallback")) = 1
      /\ Truthy(turn[t].textInput) <=> Sections(p, "message") # {}
      /\ \A i \in Sections(p, "message") : p[i].body = <<turn[t].textInput>>
      /\ \A i \in Sections(p, "message") : Truthy(p[i].body[1])

\* a request with a file and the empty message: what was retrieved is in
\* the prompt, and the instruction stands in place of the message
C28_Witness ==
  \E t \in StreamIds :
    /\ turn[t].pc = "forAwait" /\ turn[t].textInput = ""
    /\ Len(turn[t].retrievedContext) > 0
    /\ Sections(turn[t].prompt[1], "retrieved") # {}
    /\ Sections(turn[t].prompt[1], "fallback") # {}
    /\ Sections(turn[t].prompt[1], "message") = {}

\* the awaits of saveChatHistory: the read of the url, the download, the
\* upload, the upsert and the title write
SavePcs == {"saveGetUrl", "saveDownload", "saveUpload", "saveUpsert", "saveTitle"}

\* C29: a turn is at a step of saveChatHistory only with finalResponse set,
\* to the whole of what the stream yielded; finalResponse is unset until the
\* step at which the loop over the stream ends, and unset for good if the
\* turn failed; and the stores of the history change only by a step of a
\* turn that is at a step of saveChatHistory.
C29_PersistAfterGeneration ==
  [][/\ \A t \in StreamIds :
          /\ turn[t].pc \in SavePcs =>
               turn[t].finalResponse = Some(Concat(published[t]))
          /\ turn'[t].pc \in SavePcs =>
               turn'[t].finalResponse = Some(Concat(published'[t]))
          /\ (turn[t].finalResponse = None /\ turn'[t].finalResponse # None) =>
               turn[t].pc = "forAwait" /\ turn'[t].pc = "saveGetUrl"
          /\ (turn'[t].pc \notin SavePcs \cup {"done"} \/ turn'[t].error # "none") =>
               turn'[t].finalResponse = None
     /\ (blob' # blob \/ meta' # meta) =>
          \E t \in StreamIds :
            turn[t].pc \in SavePcs /\ turn[t].finalResponse # None]_vars

\* the stream yielded "a" and "b" and ended; the upload of the history is
\* awaited with the entry that holds the whole response
C29_Witness ==
  \E t \in StreamIds :
    /\ turn[t].pc = "saveUpload" /\ published[t] = <<<<"a">>, <<"b">>>>
    /\ turn[t].finalResponse = Some(<<"a", "b">>)
    /\ turn[t].saving # <<>>
    /\ turn[t].saving[Len(turn[t].saving)].llmResponse = <<"a", "b">>

\* the files of the contents cs, in the order of cs
FilesOf(cs) == [i \in 1..Len(cs) |-> cs[i].file]
\* sequence s of numbers never goes down
Ascending(s) == \A i, j \in 1..Len(s) : i < j => s[i] <= s[j]
\* the positions 1..n in their order
UpTo(n) == [i \in 1..n |-> i]

\* C30: the failure of a file is not an error of the turn: the loop goes on
\* to every file after it, in the order of the upload; the state holds no
\* content of a file that failed and the description of every image that
\* did not, in the order of the upload; and once every file has settled the
\* turn goes on to indexing or retrieval, never to its catch block.
C30_FileFailureSkipsFile ==
  [][\A t \in StreamIds :
       LET tr == turn'[t] IN
       /\ tr.fileOrder = UpTo(Len(tr.fileOrder))
       /\ tr.pc \notin {"idle", "getHistoryUrl", "downloadHistory", "processFiles"}
            => tr.fileOrder = UpTo(Len(tr.files))
       /\ \A i \in 1..Len(tr.images \o tr.documents) :
            (tr.images \o tr.documents)[i].file \notin tr.fileErrors
       /\ Ascending(FilesOf(tr.images)) /\ Ascending(FilesOf(tr.documents))
       /\ \A f \in 1..Len(tr.fileOrder) :
            (tr.files[f] = "image" /\ f \notin tr.fileErrors) =>
              Cardinality({i \in 1..Len(tr.images) : tr.images[i].file = f}) = 1
       /\ tr.error # "ExtractionError"
       /\ (turn[t].pc = "processFiles" /\ tr.pc # "processFiles") =>
            /\ tr.pc \in {"storeContent", "searchSimilar"}
            /\ tr.error = "none"]_vars

\* of two uploaded images the first failed: the second was described, its
\* description was indexed and retrieved, and the generation has begun
C30_Witness ==
  \E t \in StreamIds :
    /\ turn[t].files = <<"image", "image">> /\ turn[t].fileErrors = {1}
    /\ FilesOf(turn[t].images) = <<2>> /\ turn[t].fileOrder = <<1, 2>>
    /\ Len(turn[t].retrievedContext) > 0
    /\ turn[t].pc = "forAwait" /\ turn[t].error = "none"

\* the content of the items cs, in the order of cs
ContentOf(cs) == [i \in 1..Len(cs) |-> cs[i].content]

\* C31: the prompt of a turn whose uploads yielded content holds, as a
\* section of its own, the content of the first 5 items extracted in this
\* turn, in order (of all of them when there are at most 5).
C31_UploadsArePrimaryContext ==
  \A t \in StreamIds :
    (turn[t].prompt # None /\ Len(turn[t].images \o turn[t].documents) > 0) =>
      LET p == turn[t].prompt[1] IN
      \E u \in 1..Len(p) :
        /\ p[u].kind = "upload"
        /\ p[u].body = Take(ContentOf(turn[t].images \o turn[t].documents), 5)

\* C32: searchSimilar is called with the message of the request when the
\* request has one and with the phrase "summarize the provided context"
\* when it has none or an empty one, with the session of the turn and with
\* the limit 5; what it returns are at most 5 documents, all of the index
\* of that session; and it is called before the prompt is built.
C32_RetrievalQuery ==
  \A t \in StreamIds :
    /\ turn[t].search # None =>
         LET q == turn[t].search[1] IN
         /\ turn[t].textInput \notin {Undefined, ""} => q.query = turn[t].textInput
         /\ turn[t].textInput \in {Undefined, ""} =>
              q.query = "summarize the provided context"
         /\ q.sessionId = turn[t].sessionId /\ q.limit = 5
         /\ Len(turn[t].retrievedContext) <= 5
         /\ IsPrefix(turn[t].retrievedContext, index[turn[t].sessionId])
    /\ turn[t].prompt # None => turn[t].search # None
    /\ turn[t].pc \in {"llmStream", "forAwait"} \cup SavePcs => turn[t].search # None

\* a request with a document and no message: the search ran with the
\* phrase on the session of the turn and returned the chunk just indexed
C32_Witness ==
  \E t \in StreamIds :
    /\ turn[t].textInput = Undefined /\ turn[t].files = <<"document">>
    /\ turn[t].search =
         Some([query |-> "summarize the provided context",
               sessionId |-> turn[t].sessionId, limit |-> 5])
    /\ turn[t].retrievedContext = <<"document">>

\* The channel and two SSE connections: one turn of a request that carries
\* the message "hi" and no file, and two connections that may each ask for
\* the stream of that turn at any moment and may leave.
FanNext ==
  \/ \E t \in SoloStreams, sid \in CallerSessions \cup {Undefined} :
       Create(t, "hi", sid, <<>>)
  \/ \E c \in Clients, id \in SoloStreams : GetChatStream(c, id)
  \/ \E c \in Clients : Disconnect(c)
  \/ \E t \in SoloStreams : TextStep(t)

FanSpec == Init /\ [][FanNext]_vars

\* C33: a channel has at most one attached consumer at any time.
C33_AtMostOneConsumer ==
  \A t \in StreamIds : Cardinality(subject[t].observers) <= 1

\* the kinds of the sections of the prompt p, in order
Kinds(p) == [i \in 1..Len(p) |-> p[i].kind]

\* a state the builder has nothing to render of: no history, nothing
\* retrieved, nothing extracted from uploads and no message
NothingToRender(tr) ==
  /\ Len(tr.chatHistory) = 0 /\ Len(tr.retrievedContext) = 0
  /\ Len(tr.images \o tr.documents) = 0 /\ ~Truthy(tr.textInput)

\* C34: the prompt handed to the model is never empty: it opens with the
\* opening instruction and ends with the closing instruction, and for a
\* state with no history, nothing retrieved, no upload content and no
\* message it is the opening instruction, the no-message instruction and
\* the closing instruction, and nothing else.
C34_PromptNeverEmpty ==
  \A t \in StreamIds :
    turn[t].prompt # None =>
      LET p == turn[t].prompt[1] IN
      /\ Len(p) >= 3
      /\ p[1].kind = "opening" /\ p[Len(p)].kind = "closing"
      /\ NothingToRender(turn[t]) =>
           Kinds(p) = <<"opening", "fallback", "closing">>

\* a request with no message and one file whose processing failed, on a
\* new session: the prompt is built of a state with nothing to render
C34_Witness ==
  \E t \in StreamIds :
    /\ turn[t].pc = "llmStream" /\ NothingToRender(turn[t])
    /\ Len(turn[t].files) > 0
    /\ Kinds(turn[t].prompt[1]) = <<"opening", "fallback", "closing">>

\* C35: the step at which the upload of a turn fails ends saveChatHistory
\* and leaves every metadata record as it was; the step at which the upsert
\* fails ends saveChatHistory too, so that no title write follows; and a
\* metadata record changes only at the upsert or the title write of a turn
\* whose upload has stored what the turn was saving.
C35_PointerAfterUpload ==
  [][ /\ \A t \in StreamIds :
           /\ (turn[t].pc = "saveUpload" /\ turn'[t].saveError = "upload") =>
                (turn'[t].pc = "done" /\ meta' = meta)
           /\ (turn[t].pc = "saveUpsert" /\ turn'[t].saveError = "upsert") =>
                (turn'[t].pc = "done" /\ meta' = meta)
           /\ turn'[t].pc = "saveTitle" => turn'[t].saveError \notin {"upload", "upsert"}
      /\ \A s \in SessionIds :
           meta'[s] # meta[s] =>
             \E t \in StreamIds :
               /\ turn[t].sessionId = s
               /\ turn[t].pc \in {"saveUpsert", "saveTitle"}
               /\ turn[t].saveError \notin {"upload", "upsert"}
               /\ blob[HistoryPublicId(s)] = Some(turn[t].saving)
    ]_vars

\* a turn on a new session whose upload failed: the turn is over, and the
\* session has neither a stored history nor a metadata record
C35_Witness ==
  \E t \in StreamIds :
    /\ turn[t].pc = "done" /\ turn[t].saveError = "upload"
    /\ turn[t].sessionId \notin CallerSessions
    /\ blob[HistoryPublicId(turn[t].sessionId)] = None
    /\ meta[turn[t].sessionId] = NoRow

\* the turn t has stored its history: its upload has returned a url
Persisted(t) == turn[t].newFileUrl # Undefined

\* C36: once the upload of a turn has succeeded, the last entry of the
\* stored history of its session holds, as llmResponse, the fragments
\* published to the channel of the turn, all of them and in order, and, as
\* userMessage, the message of the request, or 'No message provided' when
\* the request had none.
C36_EntryMatchesStream ==
  \A t \in SoloStreams :
    Persisted(t) =>
      LET stored == blob[HistoryPublicId(turn[t].sessionId)] IN
      /\ stored # None /\ Len(stored[1]) > 0
      /\ LET e == stored[1][Len(stored[1])] IN
         /\ e.llmResponse = Concat(published[t])
         /\ turn[t].textInput # Undefined => e.userMessage = turn[t].textInput
         /\ turn[t].textInput = Undefined => e.userMessage = "No message provided"

\* a request with a file and no message whose stream yielded two
\* fragments: the entry holds both and the placeholder
C36_Witness ==
  \E t \in SoloStreams :
    /\ Persisted(t) /\ turn[t].textInput = Undefined
    /\ Len(published[t]) = 2
    /\ LET h == blob[HistoryPublicId(turn[t].sessionId)][1] IN
       /\ h[Len(h)].userMessage = "No message provided"
       /\ h[Len(h)].llmResponse = published[t][1] \o published[t][2]

\* C37: a fragment is published only to a channel that is open and
\* registered; once a channel has its terminal signal it keeps it, nothing
\* more is published to it, and no connection that asked for it receives
\* anything further.
C37_NoPublishAfterTerminal ==
  [][\A t \in StreamIds :
       /\ published'[t] # published[t] =>
            /\ subject[t].status = "open" /\ t \in chatStreams
            /\ subject[t].terminals = <<>>
       /\ Terminated(t) =>
            /\ Terminated(t)' /\ subject'[t].terminals = subject[t].terminals
            /\ published'[t] = published[t]
            /\ \A c \in Clients :
                 client[c].streamId = t => client'[c].received = client[c].received
    ]_vars

\* a stream that failed after its first fragment: the subscriber got the
\* fragment and then the error, and the turn is over
C37_Witness ==
  \E t \in StreamIds, c \in Clients :
    /\ Done(t) /\ subject[t].terminals = <<"error">>
    /\ turn[t].error = "GenerationError"
    /\ Len(published[t]) = 1
    /\ client[c].state = "closed" /\ client[c].streamId = t
    /\ client[c].received = published[t] /\ client[c].terminal = "error"

\* C38: a request with neither a non-empty message nor a file is answered
\* with the bad-request error in a step that leaves the registry and every
\* channel as they were and starts no background task; and every request
\* for which a channel is opened and a task started carries a non-empty
\* message or at least one file.
C38_BadRequestRejected ==
  [][\A t \in StreamIds :
       /\ (turn'[t].textInput \in {Undefined, ""} /\ turn'[t].files = <<>>
              /\ turn'[t] # turn[t]) =>
            /\ turn'[t].returned = "BadRequest"
            /\ turn[t].pc = "idle" /\ turn'[t].pc = "idle"
            /\ chatStreams' = chatStreams /\ t \notin chatStreams'
            /\ subject' = subject /\ subject'[t] = NoSubject
            /\ published' = published /\ traces' = traces
            /\ blob' = blob /\ meta' = meta /\ index' = index
       /\ (turn'[t].pc # "idle" \/ t \in chatStreams' \/ subject'[t] # NoSubject) =>
            /\ turn'[t].returned # "BadRequest"
            /\ turn'[t].textInput \notin {Undefined, ""} \/ Len(turn'[t].files) > 0
    ]_vars

\* a request with an empty message and no file was answered with the
\* bad-request error: no channel, no entry in the registry, no task
C38_Witness ==
  \E t \in StreamIds :
    /\ turn[t].returned = "BadRequest"
    /\ turn[t].textInput = "" /\ turn[t].files = <<>>
    /\ turn[t].pc = "idle" /\ t \notin chatStreams /\ subject[t] = NoSubject
    /\ published[t] = <<>> /\ traces[t] = {}

====
